---- MODULE Spec2Model ----
(***************************************************************************)
(* A model of the GPT-4o OCR extractor: the extraction client              *)
(* (ocr_extractor.py, class OCRExtractor) and the command surface with its *)
(* batch driver (cli.py).  The remote service and the file system are the  *)
(* environment: the service answers each request with any response of      *)
(* Responses, the image files and output directories are the fixed disk    *)
(* described below.                                                        *)
(***************************************************************************)
EXTENDS Integers, Sequences, FiniteSets, TLC

\* ------------------------------------------------------------- bounds
\* Longest sequence of paths handed to batch_process or written in a list file.
MaxLen == 2
\* Number of calls of extract_text_from_image (direct, or made by
\* extract_structured_data and batch_process) a library user causes on one client.
MaxExtracts == 2

\* ------------------------------------------------------------- values
\* Python's None, for the optional string arguments.
None == "<None>"

\* ocr_extractor.py:18, cli.py:102: the default model identifier.
DefaultModel == "gpt-4o"
Models == {DefaultModel}

\* ocr_extractor.py:74, cli.py:33,70: the default instruction.
DefaultPrompt == "Extract all text from this image."
CustomPrompt == "Read the receipt."

\* ocr_extractor.py:101: the bound on the answer length sent with a request.
MaxTokens == 1000

\* Credentials: the api_key argument and the OPENAI_API_KEY variable.  Both
\* may be absent (None) or empty.
ArgKeys == {None, "", "sk-arg"}
EnvKeys == {None, "", "sk-env"}

\* ------------------------------------------------------------- the disk
\* Image paths are kept as (directory, stem, extension) so that
\* os.path.basename and os.path.splitext can be computed on them.
Path(d, s, e) == [dir |-> d, stem |-> s, ext |-> e]
A_JPG == Path("d1", "a", ".jpg")
A_PNG == Path("d1", "a", ".png")
NOTES == Path("d1", "notes", ".md")
B_JPG == Path("d2", "b", ".jpg")
C_JPG == Path("d2", "c", ".JPG")
M_JPG == Path("d2", "m", ".jpg")
Paths == {A_JPG, A_PNG, B_JPG, C_JPG, M_JPG}
\* A whitespace-only line of a list file.
Blank == Path("", "", "")

\* Files that exist on disk; B_JPG exists but cannot be opened for reading,
\* M_JPG does not exist.
ExistingFiles == {A_JPG, A_PNG, B_JPG, C_JPG, NOTES}
ReadableFiles == {A_JPG, A_PNG, C_JPG, NOTES}
ImageBytes(p) == p.dir \o ":" \o p.stem \o p.ext \o ":bytes"

PathStr(p) == p.dir \o "/" \o p.stem \o p.ext

\* os.path.isfile, os.path.isdir, os.listdir (in any order).
IsFile(p) == p \in ExistingFiles
ExistingDirs == {"d1", "d2", "d3"}
IsDir(d) == d \in ExistingDirs
DirEntries(d) == {p \in ExistingFiles : p.dir = d}
Orders(S) == {f \in [1..Cardinality(S) -> S] : \A i, j \in DOMAIN f : f[i] = f[j] => i = j}
ExistingListFiles == {"list.txt"}

\* ------------------------------------------------------------- the service
\* A response of the service to one POST: not delivered at all (requests.post
\* raises), or a status with a body.  A body is not JSON, JSON without
\* choices[0].message.content, or JSON with it.
NoBody == [json |-> FALSE, has_content |-> FALSE, content |-> ""]
NoField == [json |-> TRUE, has_content |-> FALSE, content |-> ""]
Content(t) == [json |-> TRUE, has_content |-> TRUE, content |-> t]
Response(d, s, b) == [delivered |-> d, status |-> s, body |-> b]
\* Two answers of the model: one that is not JSON and one that is.
Texts == {"t1", "[1]"}
Responses ==
    {Response(FALSE, 0, NoBody)}
      \cup {Response(TRUE, 200, Content(t)) : t \in Texts}
      \cup {Response(TRUE, 200, NoField), Response(TRUE, 200, NoBody)}
      \cup {Response(TRUE, 300, Content("t1")), Response(TRUE, 500, Content("t1"))}

\* ------------------------------------------------------------- state
VARIABLES
    environ,    \* the value of the environment variable OPENAI_API_KEY
    ctor_args,  \* the arguments the constructor was called with
    args,       \* the parsed command line (cli.py main), NoArgs in library use
    client,     \* <<>> before construction, <<the OCRExtractor>> after
    pc,         \* where the program is
    frame,      \* the running call: operation, arguments, loop index
    results,    \* the dictionary of the running (or last) batch_process: path -> text
    ret,        \* what the last finished library call returned or raised
    requests,   \* the POSTs issued by the running (or last) top-level call, in order
    inflight,   \* the POSTs that await their response (indices of requests)
    served,     \* per call of extract_text_from_image made by the running (or
                \* last) top-level call, in order: path, prompt, answer
    posts,      \* number of POSTs issued since the client was made
    extracts,   \* number of calls of extract_text_from_image since then, by
                \* whether the image could be read
    repeat,     \* the running top-level call has the arguments of the one before
    dirs,       \* the output directories that exist
    files,      \* the output files: name -> content
    items,      \* per finished item of the command's driver: extraction and write
    console     \* the lines printed

vars == <<environ, ctor_args, args, client, pc, frame, results, ret, requests,
          inflight, served, posts, extracts, repeat, dirs, files, items,
          console>>

\* ------------------------------------------------------------- helpers
\* Python truthiness of an optional string: None and "" are falsy.
Truthy(s) == s # None /\ s # ""

\* A Python dict as a function on its key set.
EmptyDict == [k \in {} |-> ""]
Put(d, k, v) == [x \in (DOMAIN d) \cup {k} |-> IF x = k THEN v ELSE d[x]]

\* ------------------------------------------------------------- the client
\* OCRExtractor.__init__, line 26: api_key or os.environ.get("OPENAI_API_KEY").
ResolveKeyEnvFirst(api_key, env) == IF Truthy(env) THEN env ELSE api_key
ResolveKey(api_key, env) == IF Truthy(api_key) THEN api_key ELSE env

\* OCRExtractor.__init__, lines 30-35: the fields of a constructed client.
NewClient(key, model) ==
    [api_key |-> key,
     model |-> model,
     api_url |-> "https://api.openai.com/v1/chat/completions",
     headers |-> [Authorization |-> "Bearer " \o key,
                  ContentType |-> "application/json"]]

\* base64.b64encode(...).decode('utf-8'): an injective encoding of the bytes;
\* the alphabet is not modelled.
B64(bytes) == "b64(" \o bytes \o ")"

\* OCRExtractor._encode_image: the encoded file, or the error open() raises.
CanEncode(p) == p \in ReadableFiles
EncodeImage(p) == B64(ImageBytes(p))
EncodeError(p) == IF p \in ExistingFiles THEN "PermissionError" ELSE "FileNotFoundError"

\* OCRExtractor._prepare_image_payload.
PrepareImagePayload(image_data) ==
    [type |-> "image_url",
     image_url |-> [url |-> "data:image/jpeg;base64," \o image_data,
                    detail |-> "high"]]

\* extract_text_from_image, lines 90-102: the JSON body.
Payload(model, prompt, image_data) ==
    [model |-> model,
     messages |-> << [role |-> "user",
                      content |-> << [type |-> "text", text |-> prompt],
                                     PrepareImagePayload(image_data) >>] >>,
     max_tokens |-> MaxTokens]

\* extract_text_from_image, line 106: the POST as it goes on the wire.
BuildRequest(c, p, prompt) ==
    [url |-> c.api_url,
     headers |-> c.headers,
     json |-> Payload(c.model, prompt, EncodeImage(p))]

\* requests.Response.raise_for_status, called on line 107: raises HTTPError
\* for the client and server error statuses, 400 to 599, and for no other.
RaisesForStatus(status) == 400 <= status /\ status < 600

\* The outcome of one call of extract_text_from_image: the text returned or
\* the exception raised.
Returned(t) == [ok |-> TRUE, text |-> t, err |-> ""]
Raised(e) == [ok |-> FALSE, text |-> "", err |-> e]

\* extract_text_from_image, lines 106-118: what becomes of the response.
Unwrap(resp) ==
    IF ~resp.delivered THEN Raised("ConnectionError")
    ELSE IF RaisesForStatus(resp.status) THEN Raised("HTTPError")
    ELSE IF ~resp.body.json THEN Raised("JSONDecodeError")
    ELSE IF ~resp.body.has_content THEN Raised("KeyError")
    ELSE Returned(resp.body.content)

\* extract_structured_data, line 131: the instruction made from the format hint.
StructuredPrompt(data_format) ==
    "Extract the " \o data_format \o " data from this image and format it as JSON."
DataFormats == {"table", "form"}

\* extract_structured_data, line 137: the container returned.
ParsedContainer(text_result) ==
    [result |-> IF text_result = "[1]" THEN "1" ELSE text_result]
Container(text_result) == [result |-> text_result]

\* batch_process, line 162: the failure description stored for an item.
ErrorText(e) == "Error: " \o e

\* The entry of served for a call that raised before any request was made.
NoAnswer == Response(FALSE, -1, NoBody)
Served(p, prompt, answer) == [path |-> p, prompt |-> prompt, answer |-> answer]

\* ------------------------------------------------------------- frames
Args(mode, image, dir, list, lines, prompt, output, structured) ==
    [mode |-> mode, image |-> image, dir |-> dir, list |-> list, lines |-> lines,
     prompt |-> prompt, output |-> output, structured |-> structured]
NoArgs == Args("none", Blank, None, None, <<>>, None, None, FALSE)
Frame(op, paths, prompt, output, structured, fmt) ==
    [op |-> op, image_paths |-> paths, i |-> 1, prompt |-> prompt,
     output |-> output, structured |-> structured, fmt |-> fmt]
NoFrame == [Frame("none", <<>>, None, None, FALSE, "table") EXCEPT !.i = 0]
NoRet == [kind |-> "none", text |-> "", container |-> <<>>, err |-> ""]
RetText(t) == [NoRet EXCEPT !.kind = "text", !.text = t]
RetContainer(c) == [NoRet EXCEPT !.kind = "container", !.container = <<c>>]
RetResults == [NoRet EXCEPT !.kind = "results"]
RetRaised(e) == [NoRet EXCEPT !.kind = "raised", !.err = e]

\* Sequences of paths of length at most n.
SeqsUpTo(S, n) == UNION {[1..k -> S] : k \in 0..n}

\* The output directories a command can name, and the files in them the
\* process cannot open for writing.  "old" exists and holds a read-only
\* a.txt; "out" does not exist; "locked" does not exist and cannot be made.
Join(dir, name) == dir \o "/" \o name
InitialDirs == {"old", "."}
InitialFiles == [n \in {"old/a.txt"} |-> "stale"]
ReadOnlyFiles == {"old/a.txt"}
UncreatableDirs == {"locked"}
OutputDirs == {None, "out", "old", "locked"}
OutputFiles == {None, "./res.txt", "old/a.txt"}
AllDirs == {".", "out", "old", "locked"}
FileNames ==
    {p.stem \o ".txt" : p \in Paths} \cup {p.stem \o p.ext \o ".txt" : p \in Paths}
      \cup {"res.txt"}
ParentDir(file) == CHOOSE d \in AllDirs : \E n \in FileNames : file = Join(d, n)
\* open(file, 'w') succeeds.
CanOpenW(file, ds) == ParentDir(file) \in ds /\ file \notin ReadOnlyFiles

Init ==
    /\ environ \in EnvKeys
    /\ ctor_args = [api_key |-> None, model |-> DefaultModel]
    /\ args = NoArgs
    /\ client = <<>>
    /\ pc = "start"
    /\ frame = NoFrame
    /\ results = EmptyDict
    /\ ret = NoRet
    /\ requests = <<>>
    /\ inflight = {}
    /\ served = <<>>
    /\ posts = 0
    /\ extracts = [readable |-> 0, unreadable |-> 0]
    /\ repeat = FALSE
    /\ dirs = InitialDirs
    /\ files = InitialFiles
    /\ items = <<>>
    /\ console = <<>>

\* ------------------------------------------------------------- library use
\* OCRExtractor(api_key, model) called by a library user: the ValueError
\* reaches the caller.
New(api_key, model) ==
    /\ pc = "start"
    /\ ctor_args' = [api_key |-> api_key, model |-> model]
    /\ LET key == ResolveKey(api_key, environ) IN
         IF Truthy(key)
         THEN /\ client' = <<NewClient(key, model)>>
              /\ pc' = "idle"
              /\ ret' = ret
         ELSE /\ client' = client
              /\ pc' = "raised"
              /\ ret' = RetRaised("ValueError")
    /\ UNCHANGED <<environ, args, frame, results, requests, inflight, served,
                   posts, extracts, repeat, dirs, files, items, console>>

\* extract_text_from_image, lines 85-106, on a readable image: the request is
\* sent and the caller blocks until the answer arrives.
SendRequestTwice(p, prompt, log) ==
    LET req == BuildRequest(client[1], p, prompt) IN
    /\ requests' = log \o <<req, req>>
    /\ inflight' = inflight \cup {Len(log) + 1, Len(log) + 2}
    /\ posts' = posts + 2
    /\ extracts' = [extracts EXCEPT !.readable = @ + 1]
    /\ pc' = "wait"
SendRequest(p, prompt, log) ==
    LET req == BuildRequest(client[1], p, prompt) IN
    /\ requests' = Append(log, req)
    /\ inflight' = inflight \cup {Len(log) + 1}
    /\ posts' = posts + 1
    /\ extracts' = [extracts EXCEPT !.readable = @ + 1]
    /\ pc' = "wait"

\* extract_text_from_image, lines 87, 116-118, on an image that cannot be read:
\* _encode_image raises and no request is made.
NoRequest(log) ==
    /\ requests' = log
    /\ inflight' = inflight
    /\ posts' = posts
    /\ extracts' = [extracts EXCEPT !.unreadable = @ + 1]

\* A library user starts a call on the constructed client.
StartCall(f) ==
    /\ pc = "idle"
    /\ extracts.readable + extracts.unreadable + Len(f.image_paths) <= MaxExtracts
    /\ frame' = f
    /\ repeat' = ([frame EXCEPT !.i = 1] = f)

\* extract_text_from_image(image_path, prompt) called by a library user.
ExtractFinish(log, p, prompt, answer, out) ==
    /\ served' = Append(log, Served(p, prompt, answer))
    /\ ret' = IF out.ok THEN RetText(out.text) ELSE RetRaised(out.err)
    /\ pc' = "idle"

CallExtract(p, prompt) ==
    /\ StartCall(Frame("extract", <<p>>, prompt, None, FALSE, "table"))
    /\ IF CanEncode(p)
       THEN /\ SendRequest(p, prompt, <<>>)
            /\ served' = <<>>
            /\ ret' = NoRet
       ELSE /\ NoRequest(<<>>)
            /\ ExtractFinish(<<>>, p, prompt, NoAnswer, Raised(EncodeError(p)))
    /\ results' = EmptyDict
    /\ UNCHANGED <<environ, ctor_args, args, client, dirs, files, items, console>>

ExtractResume(resp) ==
    /\ pc = "wait"
    /\ frame.op = "extract"
    /\ inflight' = {}
    /\ ExtractFinish(served, frame.image_paths[1], frame.prompt, resp, Unwrap(resp))
    /\ UNCHANGED <<environ, ctor_args, args, client, frame, results, requests,
                   posts, extracts, repeat, dirs, files, items, console>>

\* extract_structured_data(image_path, data_format) called by a library user.
StructuredFinish(log, p, prompt, answer, out) ==
    /\ served' = Append(log, Served(p, prompt, answer))
    /\ ret' = IF out.ok THEN RetContainer(Container(out.text)) ELSE RetRaised(out.err)
    /\ pc' = "idle"

CallStructured(p, data_format) ==
    LET prompt == StructuredPrompt(data_format) IN
    /\ StartCall(Frame("structured", <<p>>, None, None, TRUE, data_format))
    /\ IF CanEncode(p)
       THEN /\ SendRequest(p, prompt, <<>>)
            /\ served' = <<>>
            /\ ret' = NoRet
       ELSE /\ NoRequest(<<>>)
            /\ StructuredFinish(<<>>, p, prompt, NoAnswer, Raised(EncodeError(p)))
    /\ results' = EmptyDict
    /\ UNCHANGED <<environ, ctor_args, args, client, dirs, files, items, console>>

StructuredResume(resp) ==
    /\ pc = "wait"
    /\ frame.op = "structured"
    /\ inflight' = {}
    /\ StructuredFinish(served, frame.image_paths[1], StructuredPrompt(frame.fmt),
                        resp, Unwrap(resp))
    /\ UNCHANGED <<environ, ctor_args, args, client, frame, results, requests,
                   posts, extracts, repeat, dirs, files, items, console>>

\* batch_process, lines 156-159, and cli.py lines 33, 70: the instruction used
\* when the caller gave none.
EffectivePrompt(prompt) == IF Truthy(prompt) THEN prompt ELSE DefaultPrompt

\* The for loops of batch_process (line 154) and process_batch (cli.py line
\* 64): the item of the i-th pass and the pass that follows it.
ReverseItem(paths, i) == paths[Len(paths) + 1 - i]
CurrentItem(paths, i) == paths[i]
NextIndex(i) == i + 1

\* batch_process, lines 155-162: the entry stored for an item.
ResultEntry(out) == IF out.ok THEN out.text ELSE ErrorText(out.err)

\* batch_process, lines 154-164: after an item the loop goes on to the next
\* one whatever the outcome, and returns after the last.
AbortOnFailure(i, n, out) == IF i < n /\ out.ok THEN "item" ELSE "idle"
AfterBatchItem(i, n, out) == IF i < n THEN "item" ELSE "idle"

BatchProcessFinish(log, answer, out) ==
    LET p == CurrentItem(frame.image_paths, frame.i)
        n == Len(frame.image_paths) IN
    /\ served' = Append(log, Served(p, EffectivePrompt(frame.prompt), answer))
    /\ results' = Put(results, p, ResultEntry(out))
    /\ frame' = [frame EXCEPT !.i = NextIndex(frame.i)]
    /\ pc' = AfterBatchItem(frame.i, n, out)
    /\ ret' = IF pc' = "idle" THEN RetResults ELSE ret

\* batch_process(image_paths, prompt) called by a library user: line 153.
CallBatchProcess(paths, prompt) ==
    /\ StartCall(Frame("batch_process", paths, prompt, None, FALSE, "table"))
    /\ results' = EmptyDict
    /\ requests' = <<>>
    /\ served' = <<>>
    /\ IF paths = <<>>
       THEN pc' = "idle" /\ ret' = RetResults
       ELSE pc' = "item" /\ ret' = NoRet
    /\ UNCHANGED <<environ, ctor_args, args, client, inflight, posts, extracts,
                   dirs, files, items, console>>

\* One pass of the loop up to the POST, or through the except clause when the
\* image cannot be read.
BatchProcessItem ==
    /\ pc = "item"
    /\ frame.op = "batch_process"
    /\ LET p == CurrentItem(frame.image_paths, frame.i) IN
       IF CanEncode(p)
       THEN /\ SendRequest(p, EffectivePrompt(frame.prompt), requests)
            /\ UNCHANGED <<served, results, frame, ret>>
       ELSE /\ NoRequest(requests)
            /\ BatchProcessFinish(served, NoAnswer, Raised(EncodeError(p)))
    /\ UNCHANGED <<environ, ctor_args, args, client, repeat, dirs, files,
                   items, console>>

BatchProcessResume(resp) ==
    /\ pc = "wait"
    /\ frame.op = "batch_process"
    /\ inflight' = {}
    /\ BatchProcessFinish(served, resp, Unwrap(resp))
    /\ UNCHANGED <<environ, ctor_args, args, client, requests, posts, extracts,
                   repeat, dirs, files, items, console>>

\* ------------------------------------------------------------- command line
\* cli.py main, line 140: the extensions a directory is searched for, and
\* line 144: file.lower().endswith(ext).
ImageExtensions == {".jpg", ".jpeg", ".png", ".bmp", ".tiff", ".gif"}
Lower(e) == IF e = ".JPG" THEN ".jpg" ELSE e
HasImageExtension(p) == Lower(p.ext) \in ImageExtensions

\* cli.py lines 73-75: the output file of an image in batch mode.
BaseName(p) == [stem |-> p.stem, ext |-> p.ext]
KeepExt(b) == b.stem \o b.ext
SplitExt0(b) == b.stem
OutputFile(output_dir, p) == Join(output_dir, SplitExt0(BaseName(p)) \o ".txt")

\* json.dumps(result, indent=2), cli.py lines 31, 68, of the container; the
\* texts of the model hold no character that JSON escapes.
JsonDumps(c) == "{\n  \"result\": \"" \o c.result \o "\"\n}"

\* cli.py lines 29-33, 66-70: the instruction of the request and the text
\* made from what the client returned.
CliPrompt(f) ==
    IF f.structured THEN StructuredPrompt("table") ELSE EffectivePrompt(f.prompt)
CliText(f, out) ==
    IF f.structured THEN JsonDumps(Container(out.text)) ELSE out.text

Item(p, extracted, written, file, text) ==
    [path |-> p, extracted |-> extracted, written |-> written, file |-> file,
     text |-> text]

\* main, lines 113-118: the client is made from --api-key and --model; a
\* ValueError is printed and main returns.
MainConstruct(a, api_key, model) ==
    /\ pc = "start"
    /\ args' = a
    /\ ctor_args' = [api_key |-> api_key, model |-> model]
    /\ LET key == ResolveKey(api_key, environ) IN
         IF Truthy(key)
         THEN /\ client' = <<NewClient(key, model)>>
              /\ pc' = "main"
              /\ console' = console
         ELSE /\ client' = client
              /\ pc' = "exit"
              /\ console' = Append(console, "Error: ValueError")
    /\ UNCHANGED <<environ, frame, results, ret, requests, inflight, served,
                   posts, extracts, repeat, dirs, files, items>>

\* cli.py lines 28-33 and 65-70: the statements after the client call run
\* only when the call returned; an exception goes to the except clause.
WriteAlways(out) == TRUE
Extracted(out) == out.ok

\* process_single_image, lines 28-47: everything after the client call.
SingleFinish(f, log, answer, out) ==
    LET p == f.image_paths[1]
        text == CliText(f, out)
        file == f.output IN
    /\ served' = Append(log, Served(p, CliPrompt(f), answer))
    /\ IF ~Extracted(out)
       THEN /\ files' = files
            /\ items' = Append(items, Item(p, out.ok, FALSE, None, ""))
            /\ console' = Append(console, "Error: " \o out.err)
       ELSE IF Truthy(file)
       THEN IF CanOpenW(file, dirs)
            THEN /\ files' = Put(files, file, text)
                 /\ items' = Append(items, Item(p, out.ok, TRUE, file, text))
                 /\ console' = Append(console, "Results saved to " \o file)
            ELSE /\ files' = files
                 /\ items' = Append(items, Item(p, out.ok, FALSE, file, text))
                 /\ console' = Append(console, "Error: PermissionError")
       ELSE /\ files' = files
            /\ items' = Append(items, Item(p, out.ok, FALSE, None, text))
            /\ console' = Append(console, text)
    /\ frame' = [f EXCEPT !.i = NextIndex(f.i)]
    /\ pc' = "exit"

\* main, lines 121-132: single image mode.
MainImage ==
    /\ pc = "main"
    /\ args.mode = "image"
    /\ IF ~IsFile(args.image)
       THEN /\ console' = Append(console, "Error: Image file not found: " \o PathStr(args.image))
            /\ pc' = "exit"
            /\ UNCHANGED <<frame, requests, inflight, served, posts, extracts,
                           files, items>>
       ELSE LET f == Frame("single", <<args.image>>, args.prompt, args.output,
                           args.structured, "table") IN
            IF CanEncode(args.image)
            THEN /\ frame' = f
                 /\ SendRequest(args.image, CliPrompt(f), requests)
                 /\ UNCHANGED <<served, files, items, console>>
            ELSE /\ NoRequest(requests)
                 /\ SingleFinish(f, served, NoAnswer, Raised(EncodeError(args.image)))
    /\ UNCHANGED <<environ, ctor_args, args, client, results, ret, repeat, dirs>>

SingleResume(resp) ==
    /\ pc = "wait"
    /\ frame.op = "single"
    /\ inflight' = {}
    /\ SingleFinish(frame, served, resp, Unwrap(resp))
    /\ UNCHANGED <<environ, ctor_args, args, client, results, ret, requests,
                   posts, extracts, repeat, dirs>>

\* process_batch, lines 64-88: the loop goes on after every item and the
\* function returns after the last.
AfterDriverItem(i, n) == IF i < n THEN "item" ELSE "exit"

\* process_batch, lines 65-88: everything after the client call of an item.
ProcessBatchFinish(log, answer, out) ==
    LET p == CurrentItem(frame.image_paths, frame.i)
        text == CliText(frame, out)
        file == OutputFile(frame.output, p) IN
    /\ served' = Append(log, Served(p, CliPrompt(frame), answer))
    /\ IF ~Extracted(out)
       THEN /\ files' = files
            /\ items' = Append(items, Item(p, out.ok, FALSE, None, ""))
            /\ console' = Append(console, "Error processing " \o PathStr(p) \o ": " \o out.err)
       ELSE IF Truthy(frame.output)
       THEN IF CanOpenW(file, dirs)
            THEN /\ files' = Put(files, file, text)
                 /\ items' = Append(items, Item(p, out.ok, TRUE, file, text))
                 /\ console' = console
            ELSE /\ files' = files
                 /\ items' = Append(items, Item(p, out.ok, FALSE, file, text))
                 /\ console' = Append(console, "Error processing " \o PathStr(p) \o ": PermissionError")
       ELSE /\ files' = files
            /\ items' = Append(items, Item(p, out.ok, FALSE, None, text))
            /\ console' = Append(console, "Results for " \o PathStr(p) \o ":" \o text)
    /\ frame' = [frame EXCEPT !.i = NextIndex(frame.i)]
    /\ pc' = AfterDriverItem(frame.i, Len(frame.image_paths))

\* process_batch, lines 61-62: os.makedirs is outside every try block; what
\* it raises leaves process_batch and main.
MakedirsErrorSwallowed == "item"
AfterMakedirsError == "crashed"

\* process_batch, lines 61-64: the call, up to the first pass of the loop.
ProcessBatchEnter(paths) ==
    /\ frame' = Frame("process_batch", paths, args.prompt, args.output,
                      args.structured, "table")
    /\ IF Truthy(args.output) /\ args.output \notin dirs
       THEN IF args.output \in UncreatableDirs
            THEN /\ dirs' = dirs
                 /\ pc' = AfterMakedirsError
            ELSE /\ dirs' = dirs \cup {args.output}
                 /\ pc' = IF paths = <<>> THEN "exit" ELSE "item"
       ELSE /\ dirs' = dirs
            /\ pc' = IF paths = <<>> THEN "exit" ELSE "item"

ProcessBatchItem ==
    /\ pc = "item"
    /\ frame.op = "process_batch"
    /\ LET p == CurrentItem(frame.image_paths, frame.i) IN
       IF CanEncode(p)
       THEN /\ SendRequest(p, CliPrompt(frame), requests)
            /\ UNCHANGED <<served, frame, files, items, console>>
       ELSE /\ NoRequest(requests)
            /\ ProcessBatchFinish(served, NoAnswer, Raised(EncodeError(p)))
    /\ UNCHANGED <<environ, ctor_args, args, client, results, ret, repeat, dirs>>

ProcessBatchResume(resp) ==
    /\ pc = "wait"
    /\ frame.op = "process_batch"
    /\ inflight' = {}
    /\ ProcessBatchFinish(served, resp, Unwrap(resp))
    /\ UNCHANGED <<environ, ctor_args, args, client, results, ret, requests,
                   posts, extracts, repeat, dirs>>

\* main, lines 135-158: directory mode; os.listdir gives the entries in an
\* order of its own.
ImagePaths(order) == SelectSeq(order, HasImageExtension)
MainDir(order) ==
    /\ pc = "main"
    /\ args.mode = "dir"
    /\ order \in Orders(DirEntries(args.dir))
    /\ IF ~IsDir(args.dir)
       THEN /\ console' = Append(console, "Error: Directory not found: " \o args.dir)
            /\ pc' = "exit"
            /\ UNCHANGED <<frame, dirs>>
       ELSE IF ImagePaths(order) = <<>>
       THEN /\ console' = Append(console, "No image files found in directory: " \o args.dir)
            /\ pc' = "exit"
            /\ UNCHANGED <<frame, dirs>>
       ELSE /\ console' = Append(console, "Found images to process")
            /\ ProcessBatchEnter(ImagePaths(order))
    /\ UNCHANGED <<environ, ctor_args, args, client, results, ret, requests,
                   inflight, served, posts, extracts, repeat, files, items>>

\* main, lines 166-175: the lines of the list file, stripped, without the
\* empty ones; the paths among them that are files; a warning for each other.
NonBlank(line) == line # Blank
NotFile(p) == ~IsFile(p)
Warning(p) == "Warning: File not found, skipping: " \o PathStr(p)
ListedPaths(lines) == SelectSeq(lines, NonBlank)
AllListed(image_paths) == image_paths
ValidPaths(image_paths) == SelectSeq(image_paths, IsFile)
Warnings(image_paths) ==
    LET missing == SelectSeq(image_paths, NotFile) IN
    [k \in 1..Len(missing) |-> Warning(missing[k])]

\* main, lines 161-188: list mode.
MainList ==
    /\ pc = "main"
    /\ args.mode = "list"
    /\ IF args.list \notin ExistingListFiles
       THEN /\ console' = Append(console, "Error: List file not found: " \o args.list)
            /\ pc' = "exit"
            /\ UNCHANGED <<frame, dirs>>
       ELSE LET image_paths == ListedPaths(args.lines)
                valid_paths == ValidPaths(image_paths) IN
            IF valid_paths = <<>>
            THEN /\ console' = console \o Warnings(image_paths)
                                 \o <<"No valid image paths found in the list">>
                 /\ pc' = "exit"
                 /\ UNCHANGED <<frame, dirs>>
            ELSE /\ console' = console \o Warnings(image_paths)
                                 \o <<"Processing images from list">>
                 /\ ProcessBatchEnter(valid_paths)
    /\ UNCHANGED <<environ, ctor_args, args, client, results, ret, requests,
                   inflight, served, posts, extracts, repeat, files, items>>

\* ------------------------------------------------------------- command lines
\* --prompt and --structured as given together.
PromptFlags == {<<None, FALSE>>, <<CustomPrompt, FALSE>>, <<CustomPrompt, TRUE>>}
ImageArgs ==
    {Args("image", p, None, None, <<>>, pf[1], o, pf[2]) :
        p \in Paths, o \in OutputFiles, pf \in PromptFlags}
DirArgs ==
    {Args("dir", Blank, d, None, <<>>, pf[1], o, pf[2]) :
        d \in ExistingDirs \cup {"nodir"}, o \in OutputDirs, pf \in PromptFlags}
ListArgs ==
    {Args("list", Blank, None, "list.txt", ls, pf[1], o, pf[2]) :
        ls \in SeqsUpTo(Paths \cup {Blank}, MaxLen), o \in OutputDirs,
        pf \in PromptFlags}
      \cup {Args("list", Blank, None, "nolist.txt", <<>>, None, None, FALSE)}
CommandLines == ImageArgs \cup DirArgs \cup ListArgs

\* ------------------------------------------------------------- the program
\* What a library user or the shell may do next, with the arguments drawn
\* from the sets above; the service may answer the request in flight.
Construct == pc = "start" /\ \E k \in ArgKeys, m \in Models : New(k, m)
Extract ==
    pc = "idle" /\ \E p \in Paths, q \in {DefaultPrompt, CustomPrompt} : CallExtract(p, q)
ExtractStructured ==
    pc = "idle" /\ \E p \in Paths, d \in DataFormats : CallStructured(p, d)
BatchProcess ==
    pc = "idle" /\ \E ps \in SeqsUpTo(Paths, MaxLen), q \in {None, CustomPrompt} :
                      CallBatchProcess(ps, q)
Main ==
    pc = "start" /\ \E a \in CommandLines, k \in ArgKeys, m \in Models :
                       MainConstruct(a, k, m)
ListDir == pc = "main" /\ args.mode = "dir" /\ \E o \in Orders(DirEntries(args.dir)) : MainDir(o)
AnswerExtract == pc = "wait" /\ \E r \in Responses : ExtractResume(r)
AnswerStructured == pc = "wait" /\ \E r \in Responses : StructuredResume(r)
AnswerBatchProcess == pc = "wait" /\ \E r \in Responses : BatchProcessResume(r)
AnswerSingle == pc = "wait" /\ \E r \in Responses : SingleResume(r)
AnswerProcessBatch == pc = "wait" /\ \E r \in Responses : ProcessBatchResume(r)

Next ==
    \/ Construct
    \/ Extract
    \/ ExtractStructured
    \/ BatchProcess
    \/ BatchProcessItem
    \/ Main
    \/ MainImage
    \/ ListDir
    \/ MainList
    \/ ProcessBatchItem
    \/ AnswerExtract
    \/ AnswerStructured
    \/ AnswerBatchProcess
    \/ AnswerSingle
    \/ AnswerProcessBatch

Spec == Init /\ [][Next]_vars


\* ------------------------------------------------------------- properties
Range(seq) == {seq[k] : k \in DOMAIN seq}
LastIndex(seq, x) == CHOOSE k \in DOMAIN seq : seq[k] = x /\ \A j \in DOMAIN seq : seq[j] = x => j <= k

\* The outcome of the call of extract_text_from_image that an entry of served
\* records.
OutcomeOf(s) ==
    IF s.answer = NoAnswer THEN Raised(EncodeError(s.path)) ELSE Unwrap(s.answer)

InBatchProcess == frame.op = "batch_process"
InProcessBatch == frame.op = "process_batch" /\ pc # "crashed"
BatchProcessDone == InBatchProcess /\ pc = "idle"
ProcessBatchDone == frame.op = "process_batch" /\ pc = "exit"
Looping == (InBatchProcess \/ InProcessBatch) /\ pc \in {"item", "wait"}

\* Every item is attempted, in input order, and the driver stops only after
\* the last one.
AllAttempted ==
    /\ Len(served) = Len(frame.image_paths)
    /\ \A k \in DOMAIN served : served[k].path = frame.image_paths[k]

\* C1 as stated: both drivers attempt every one of the N items and stop only
\* after the last, and batch_process returns, for each of the N items, that
\* item's own outcome: the text for an item that succeeded, the failure
\* description for an item that failed.
C1_OutcomeForEveryItem ==
    /\ (BatchProcessDone \/ ProcessBatchDone) => AllAttempted
    /\ BatchProcessDone =>
          \A k \in DOMAIN frame.image_paths :
              /\ frame.image_paths[k] \in DOMAIN results
              /\ results[frame.image_paths[k]] = ResultEntry(OutcomeOf(served[k]))

\* C1 as amended: both drivers attempt every one of the N items in order,
\* never stop inside the loop and are done only after the last item;
\* batch_process returns one entry per distinct input path, holding the
\* outcome of the last occurrence of that path in the input.
C1_OutcomePerDistinctPath ==
    /\ (BatchProcessDone \/ ProcessBatchDone) => AllAttempted
    /\ Looping => frame.i <= Len(frame.image_paths) /\ ENABLED Next
    /\ BatchProcessDone =>
          /\ ret = RetResults
          /\ DOMAIN results = Range(frame.image_paths)
          /\ \A p \in DOMAIN results :
                results[p] =
                   LET out == OutcomeOf(served[LastIndex(frame.image_paths, p)]) IN
                   IF out.ok THEN out.text ELSE "Error: " \o out.err

\* A finished batch_process over the same path twice, whose first request
\* succeeded and whose second failed.
C1_Witness ==
    /\ BatchProcessDone
    /\ Len(frame.image_paths) = 2
    /\ frame.image_paths[1] = frame.image_paths[2]
    /\ Len(served) = 2
    /\ OutcomeOf(served[1]).ok
    /\ ~OutcomeOf(served[2]).ok

\* The requests a driver has issued once it has started m items.
ExpectedRequests(paths, m, prompt) ==
    LET started == SelectSeq(SubSeq(paths, 1, m), CanEncode) IN
    [k \in 1..Len(started) |-> BuildRequest(client[1], started[k], prompt)]

\* C2: in a batch run the items are submitted in input order, one at a time:
\* the items finished are exactly the first i-1 of the input, the requests
\* issued are those of the readable items among the items started, in input
\* order and with repetitions, and a request is in flight only for item i,
\* alone, after the items before it have finished.
C2_InputOrderOneAtATime ==
    (InBatchProcess \/ InProcessBatch) =>
       LET paths == frame.image_paths
           started == IF pc = "wait" THEN frame.i ELSE frame.i - 1
           prompt == IF InBatchProcess THEN EffectivePrompt(frame.prompt)
                     ELSE CliPrompt(frame) IN
       /\ Cardinality(inflight) <= 1
       /\ Len(served) = frame.i - 1
       /\ frame.i <= Len(paths) + 1
       /\ \A k \in DOMAIN served : served[k].path = paths[k]
       /\ requests = ExpectedRequests(paths, started, prompt)
       /\ inflight = IF pc = "wait" THEN {Len(requests)} ELSE {}
       /\ pc = "wait" => paths[frame.i] \in ReadableFiles

\* The second of two equal paths is in flight after the first was answered.
C2_Witness ==
    /\ InBatchProcess \/ InProcessBatch
    /\ pc = "wait"
    /\ frame.i = 2
    /\ frame.image_paths[1] = frame.image_paths[2]
    /\ Len(requests) = 2
    /\ requests[1] = requests[2]

\* C3: every call of extract_text_from_image on a readable image issues
\* exactly one request, whatever the answer, a call on an unreadable image
\* issues none, and a call that repeats the previous one issues its own.
C3_OneRequestPerCall ==
    /\ posts = extracts.readable
    /\ Cardinality(inflight) <= 1
    /\ Len(requests) = Cardinality({k \in DOMAIN served : served[k].answer # NoAnswer})
                         + Cardinality(inflight)
    /\ \A k \in DOMAIN served :
          (served[k].answer = NoAnswer) <=> (served[k].path \notin ReadableFiles)
    /\ (repeat /\ frame.op = "extract" /\ frame.image_paths[1] \in ReadableFiles) =>
          /\ Len(requests) = 1
          /\ posts >= 2

\* The same extract call made twice on a readable image, answered with an
\* error status the second time: two requests have been issued in all.
C3_Witness ==
    /\ repeat
    /\ frame.op = "extract"
    /\ pc = "idle"
    /\ Len(served) = 1
    /\ served[1].answer = Response(TRUE, 500, Content("t1"))
    /\ posts = 2

\* What the claims call a successful answer: a 2xx status and a JSON body
\* that holds choices[0].message.content.
SuccessAnswer(a) ==
    /\ a.delivered
    /\ 200 <= a.status /\ a.status <= 299
    /\ a.body.json
    /\ a.body.has_content

\* C4 as stated: extract_text_from_image returns a text only for a 2xx answer
\* whose body holds choices[0].message.content, and then that content; for
\* every other answer it raises, and so does extract_structured_data, which
\* returns its container only in the first case.
C4_TextOnlyOnSuccess ==
    (pc = "idle" /\ frame.op \in {"extract", "structured"} /\ Len(served) = 1) =>
        LET a == served[1].answer IN
        IF a # NoAnswer /\ SuccessAnswer(a)
        THEN IF frame.op = "extract"
             THEN ret = RetText(a.body.content)
             ELSE ret = RetContainer([result |-> a.body.content])
        ELSE ret.kind = "raised"

InCommand == frame.op \in {"single", "process_batch"}
DistinctPaths ==
    \A j, k \in DOMAIN frame.image_paths :
        frame.image_paths[j] = frame.image_paths[k] => j = k
WrittenTo(f) == {k \in DOMAIN items : items[k].written /\ items[k].file = f}
Last(S) == CHOOSE k \in S : \A j \in S : j <= k
ExpectedFile(k) ==
    IF frame.op = "single" THEN frame.output
    ELSE frame.output \o "/" \o served[k].path.stem \o ".txt"
ExpectedText(k) ==
    IF frame.structured
    THEN "{\n  \"result\": \"" \o served[k].answer.body.content \o "\"\n}"
    ELSE served[k].answer.body.content

AllWritten ==
    /\ ProcessBatchDone
    /\ Truthy(frame.output)
    /\ Len(items) = Len(frame.image_paths)
    /\ \A k \in DOMAIN items : items[k].extracted /\ items[k].written
FilesIn(dir) == {f \in DOMAIN files : ParentDir(f) = dir}
Stems == {p.stem : p \in Range(frame.image_paths)}
LastWithStem(st) ==
    Last({k \in DOMAIN frame.image_paths : frame.image_paths[k].stem = st})

\* C6 as stated: after a batch over N different images into a directory that
\* did not exist, in which every extraction (and write) succeeded, the directory
\* exists and holds exactly N files, one per image, each holding its image's
\* result.
C6_OneFilePerImage ==
    (AllWritten /\ DistinctPaths /\ frame.output \notin InitialDirs) =>
       /\ frame.output \in dirs
       /\ Cardinality(FilesIn(frame.output)) = Len(frame.image_paths)
       /\ \A k \in DOMAIN items :
             files[frame.output \o "/" \o frame.image_paths[k].stem \o ".txt"]
                = items[k].text

\* C6 as amended: after such a batch the directory exists and holds, beside
\* what it held before, exactly one file per distinct base name of the N
\* images, named <base name>.txt and holding the result of the last image of
\* that base name; these are N files only when the base names differ.
C6_OneFilePerBaseName ==
    AllWritten =>
       LET dir == frame.output
           before == {f \in DOMAIN InitialFiles : ParentDir(f) = dir} IN
       /\ dir \in dirs
       /\ FilesIn(dir) = before \cup {dir \o "/" \o st \o ".txt" : st \in Stems}
       /\ Cardinality(FilesIn(dir) \ before) = Cardinality(Stems)
       /\ \A st \in Stems :
             files[dir \o "/" \o st \o ".txt"] = items[LastWithStem(st)].text

\* Directory mode over d1, which holds a.jpg and a.png, into a new directory:
\* both were extracted with different results and written, one file is there.
C6_Witness ==
    /\ AllWritten
    /\ args.mode = "dir"
    /\ frame.output = "out"
    /\ Len(frame.image_paths) = 2
    /\ items[1].text # items[2].text
    /\ FilesIn("out") = {"out/a.txt"}

Present(key) == key # None /\ key # ""
Constructed == client # <<>>

\* C7: the client holds the credential passed to the constructor when one
\* (a non-empty one) is passed, otherwise that of OPENAI_API_KEY;
\* construction fails, with no client and no request, exactly when neither
\* is present; and no call changes the client once it is made.
C7_State ==
    /\ Constructed =>
          LET key == IF Present(ctor_args.api_key) THEN ctor_args.api_key ELSE environ IN
          /\ Present(key)
          /\ client[1].api_key = key
          /\ client[1].model = ctor_args.model
          /\ client[1].headers.Authorization = "Bearer " \o key
          /\ \A k \in DOMAIN requests : requests[k].headers = client[1].headers
    /\ (pc # "start" /\ ~Constructed) =>
          /\ ~Present(ctor_args.api_key) /\ ~Present(environ)
          /\ pc \in {"raised", "exit"}
          /\ posts = 0 /\ requests = <<>>
    /\ (pc # "start" /\ ~Present(ctor_args.api_key) /\ ~Present(environ)) => ~Constructed
C7_CredentialPrecedence ==
    /\ []C7_State
    /\ [][Constructed => client' = client /\ environ' = environ]_vars

\* A client made with both credentials present has served two calls and
\* still holds the credential that was passed.
C7_Witness ==
    /\ Constructed
    /\ ctor_args.api_key = "sk-arg"
    /\ environ = "sk-env"
    /\ posts = 2
    /\ pc = "idle"
    /\ client[1].api_key = "sk-arg"

\* C8: extract_structured_data makes one call of extract_text_from_image,
\* with the instruction made from the format hint, and returns the text of
\* that call unchanged under the key "result"; its request is the one of the
\* plain mode but for the instruction.
C8_StructuredWrapsText ==
    (frame.op = "structured") =>
       LET p == frame.image_paths[1]
           instruction == "Extract the " \o frame.fmt
                            \o " data from this image and format it as JSON." IN
       /\ Len(requests) = IF p \in ReadableFiles THEN 1 ELSE 0
       /\ \A k \in DOMAIN requests :
             /\ requests[k].json.messages[1].content[1].text = instruction
             /\ [requests[k] EXCEPT !.json.messages[1].content[1].text = DefaultPrompt]
                   = BuildRequest(client[1], p, DefaultPrompt)
       /\ pc = "idle" =>
             /\ Len(served) = 1
             /\ served[1].prompt = instruction
             /\ IF OutcomeOf(served[1]).ok
                THEN ret = RetContainer([result |-> served[1].answer.body.content])
                ELSE ret = RetRaised(OutcomeOf(served[1]).err)

\* A structured call answered with a text that is not JSON returned it as is.
C8_Witness ==
    /\ frame.op = "structured"
    /\ pc = "idle"
    /\ ret.kind = "container"
    /\ ret.container[1].result = "t1"

FailedItems == {k \in DOMAIN items : ~items[k].written /\ (~items[k].extracted \/ Truthy(frame.output))}
ErrorLine(k) ==
    "Error processing " \o PathStr(items[k].path) \o ": "
       \o (IF items[k].extracted THEN "PermissionError" ELSE OutcomeOf(served[k]).err)

\* C9: when process_batch cannot make the output directory the error leaves
\* it: no item is processed, no request issued, no file written; every
\* failure of an item (extraction or write) is reported for that item and
\* the loop goes on to the next item.
C9_OnlyItemFailuresCaught ==
    /\ pc = "crashed" =>
          /\ frame.op = "process_batch"
          /\ frame.output \in UncreatableDirs
          /\ frame.output \notin dirs
          /\ served = <<>> /\ requests = <<>> /\ posts = 0 /\ items = <<>>
          /\ files = InitialFiles
    /\ (frame.op = "process_batch" /\ frame.output \in UncreatableDirs) => pc = "crashed"
    /\ InProcessBatch =>
          /\ Len(items) = frame.i - 1
          /\ \A k \in FailedItems : ErrorLine(k) \in Range(console)
          /\ pc = "exit" => Len(items) = Len(frame.image_paths)
          /\ pc \in {"item", "wait", "exit"}

\* The output directory could not be made: the batch is over before its
\* first item.
C9_Witness ==
    /\ pc = "crashed"
    /\ frame.image_paths # <<>>
    /\ served = <<>>

ListedAndExisting ==
    LET listed == SelectSeq(args.lines, LAMBDA l : l # Blank) IN
    SelectSeq(listed, LAMBDA q : q \in ExistingFiles)
ListedAndMissing ==
    LET listed == SelectSeq(args.lines, LAMBDA l : l # Blank) IN
    Range(SelectSeq(listed, LAMBDA q : q \notin ExistingFiles))

\* C10: in list mode the batch driver runs on the listed paths that exist as
\* files, in list order; a missing path gets a warning and is never
\* submitted; with no existing path, or no list file (or no client), main
\* returns and no request is issued;
\* an existing path that cannot be read is a failed item of the batch.
C10_ListModeValidation ==
    (args.mode = "list" /\ pc \notin {"start", "main"}) =>
       IF ~Constructed \/ args.list \notin ExistingListFiles \/ ListedAndExisting = <<>>
       THEN /\ pc = "exit"
            /\ frame = NoFrame
            /\ posts = 0 /\ served = <<>> /\ items = <<>>
       ELSE /\ frame.op = "process_batch"
            /\ frame.image_paths = ListedAndExisting
            /\ \A q \in ListedAndMissing :
                  /\ ("Warning: File not found, skipping: " \o PathStr(q)) \in Range(console)
                  /\ \A k \in DOMAIN served : served[k].path # q
                  /\ \A k \in DOMAIN items : items[k].path # q
            /\ pc = "exit" =>
                  /\ Len(items) = Len(ListedAndExisting)
                  /\ \A k \in DOMAIN items :
                        /\ items[k].path = ListedAndExisting[k]
                        /\ items[k].path \notin ReadableFiles => ~items[k].extracted

\* A list of a missing path and an existing but unreadable one: the batch
\* ran on the second alone, which failed as an item.
C10_Witness ==
    /\ args.mode = "list"
    /\ args.lines = <<M_JPG, B_JPG>>
    /\ pc = "exit"
    /\ Len(items) = 1
    /\ items[1].path = B_JPG
    /\ ~items[1].extracted
    /\ posts = 0

====
